---- MODULE Spec2Model ----
(***************************************************************************)
(* The multi-agent workflow of src/main.py: a LangGraph StateGraph over    *)
(* SupervisorState with the nodes supervisor, transcriptor, analyzer and   *)
(* writer, every node followed by the conditional edge _router, run by     *)
(* BlogWorkflow.process_video.                                             *)
(*                                                                         *)
(* A text (a Python str) is a sequence of tokens; a token is a character   *)
(* or a word that the code only ever treats as a whole.  "" is << >>,      *)
(* s + t is s \o t, bool(s) is s # << >>, "w in s" is token membership.    *)
(* The workflow state is a Python dict: a function whose DOMAIN is the set *)
(* of keys written so far, read with Get(state, key, default).             *)
(***************************************************************************)
EXTENDS Naturals, Integers, Sequences, FiniteSets, TLC

VARIABLES
    url,        \* process_video's url argument
    task,       \* process_video's task argument
    state,      \* the graph's state (SupervisorState), a dict
    node,       \* the node the graph runs next, or END
    steps,      \* supersteps the graph has executed in this run
    phase,      \* "running" inside graph.invoke, "returned" after process_video
    response,   \* the dict process_video returned
    last,       \* the node that produced the current state ("start" at first)
    outcome,    \* what the collaborators of that node did
    invoked,    \* how often each node has run in this run
    config,     \* the workflow's config.processing (the agents share the object)
    prompt,     \* what that node sent to its collaborator (its language model,
                \* the transcript loader), if it called one
    cli,        \* cli.main: where it is, its --dry-run flag, its exit code
    util        \* a call of utils.truncate_text: its arguments, then its result

vars == <<url, task, state, node, steps, phase, response, last, outcome, invoked,
          config, prompt, cli, util>>

\* ------------------------------------------------------------------ bounds

\* Longest advisory text of the supervisor's language model, in tokens.
MaxDecisionLen == 1
\* Most transcript chunks the loader returns.
MaxChunks == 2

\* LangGraph's default recursion_limit: graph.invoke is called with no config,
\* so the graph raises GraphRecursionError when it has executed this many
\* supersteps and has not reached END.
RecursionLimit == 25

\* Largest config.processing.max_transcript_length a caller sets, in tokens.
MaxTranscriptCap == 3

\* Longest text, largest max_length and longest suffix truncate_text is called
\* with.
MaxTextLen == 3
MaxLength == 3
MaxSuffixLen == 3

\* ------------------------------------------------------------------ config

\* ProcessingConfig's defaults
max_transcript_length == 10000

keyword_extraction_limit == 500

ProcessingConfig ==
    [max_transcript_length |-> max_transcript_length,
     keyword_extraction_limit |-> keyword_extraction_limit]

\* ------------------------------------------------------------------- texts

END == "__end__"

Nodes == {"supervisor", "transcriptor", "analyzer", "writer"}

\* Python's str.isspace() on one token.
IsSpace(c) == c \in {" ", "\n"}

\* All texts over alphabet A of at most n tokens.
TextsUpTo(A, n) == UNION {[1..k -> A] : k \in 0..n}

\* str.lower() on one token, and on a text.
LowerTok(c) ==
    CASE c = "Done" -> "done"
      [] c = "Writer" -> "writer"
      [] OTHER -> c

Lower(s) == [i \in 1..Len(s) |-> LowerTok(s[i])]

\* w in s
Contains(s, w) == \E i \in 1..Len(s) : s[i] = w

RECURSIVE LStrip(_)
LStrip(s) == IF s # << >> /\ IsSpace(Head(s)) THEN LStrip(Tail(s)) ELSE s

RECURSIVE RStrip(_)
RStrip(s) ==
    IF s # << >> /\ IsSpace(s[Len(s)]) THEN RStrip(SubSeq(s, 1, Len(s) - 1)) ELSE s

\* str.strip()
Strip(s) == RStrip(LStrip(s))

\* str.split(): the maximal runs of non-whitespace tokens, in order.
RECURSIVE SplitFrom(_, _)
SplitFrom(s, cur) ==
    IF s = << >>
    THEN IF cur = << >> THEN << >> ELSE <<cur>>
    ELSE IF IsSpace(Head(s))
         THEN (IF cur = << >> THEN << >> ELSE <<cur>>) \o SplitFrom(Tail(s), << >>)
         ELSE SplitFrom(Tail(s), Append(cur, Head(s)))

Split(s) == SplitFrom(s, << >>)

\* sep.join(parts)
RECURSIVE Join(_, _)
Join(sep, parts) ==
    IF parts = << >> THEN << >>
    ELSE IF Len(parts) = 1 THEN parts[1]
    ELSE parts[1] \o sep \o Join(sep, Tail(parts))

\* text.replace('\n\n\n', '\n\n'): left to right, non-overlapping.
RECURSIVE ReplaceTripleNewline(_)
ReplaceTripleNewline(s) ==
    IF Len(s) >= 3 /\ s[1] = "\n" /\ s[2] = "\n" /\ s[3] = "\n"
    THEN <<"\n", "\n">> \o ReplaceTripleNewline(SubSeq(s, 4, Len(s)))
    ELSE IF s = << >> THEN << >>
    ELSE <<Head(s)>> \o ReplaceTripleNewline(Tail(s))

\* utils.clean_text
clean_text(text) ==
    IF text = << >> THEN << >>
    ELSE Strip(ReplaceTripleNewline(Join(<<" ">>, Split(text))))

\* ------------------------------------------------------------------ inputs

\* urls process_video is called with: a text whose tokens are the parts urlparse
\* splits at (scheme, "://", netloc, "/", the rest).
Urls == {
    <<"https", "://", "www.youtube.com", "/", "watch?v=", "abc123">>,
    <<"https", "://", "youtu.be">>,
    <<"https", "://", "www.youtube.com", "/", "playlist">>,
    <<"ftp", "://", "youtube.com", "/", "watch?v=", "abc123">>,
    <<"not-a-url">>
}

Tasks == { <<"Create a blog from this video">> }

\* str(e) of an exception a collaborator raises; an exception built without
\* arguments has the empty text.
ExceptionTexts == { << >>, <<"timeout">> }

\* What the supervisor's language model may answer.
DecisionTokens == {"done", "Done", "transcriptor", "analyzer", "writer", " "}

\* The page_content of one transcript chunk.
ChunkTexts == { << >>, <<"a">>, <<" ">> }

\* The results of one search, each result by its content: none, one with an
\* empty content, one with a content.
SearchResults == { << >>, << << >> >>, << <<"a">> >> }

\* What the writer's language model may answer.
BlogTexts == { << >>, <<" ">>, <<"a">>, <<" ", "a">> }

Raise(msg) == [kind |-> "raise", msg |-> msg]

Return(value) == [kind |-> "ok", value |-> value]

\* chain.invoke / llm.invoke of the supervisor: an exception or a content.
SupervisorLLM ==
    {Raise(m) : m \in ExceptionTexts}
        \cup {Return(c) : c \in TextsUpTo(DecisionTokens, MaxDecisionLen)}

\* loader.load(): an exception or a list of documents' page_content.
LoaderResults ==
    {Raise(m) : m \in ExceptionTexts}
        \cup {Return(d) : d \in TextsUpTo(ChunkTexts, MaxChunks)}

\* The analyzer's two calls: the keyword model raises, the search raises, or
\* the search returns a list of results' content.
AnalyzerResults ==
    {[kind |-> "llm_raise", msg |-> m] : m \in ExceptionTexts}
        \cup {[kind |-> "search_raise", msg |-> m] : m \in ExceptionTexts}
        \cup {Return(r) : r \in SearchResults}

\* llm.invoke of the writer: an exception or a content.
WriterLLM ==
    {Raise(m) : m \in ExceptionTexts}
        \cup {Return(c) : c \in BlogTexts}

\* ------------------------------------------------------------------- state

\* dict.get(key, default)
Get(d, key, default) == IF key \in DOMAIN d THEN d[key] ELSE default

HumanMessage(content) == [type |-> "human", content |-> content]

AIMessage(content) == [type |-> "ai", content |-> content]

\* Merge with the slip of taking a node's returned dict for the whole state.
MergeWholeState(s, upd) == upd

\* LangGraph's write of a node's returned dict into the state: a plain key is
\* overwritten, the messages key (MessagesState's add_messages) is appended to.
Merge(s, upd) ==
    [k \in DOMAIN s \cup DOMAIN upd |->
        IF k \notin DOMAIN upd THEN s[k]
        ELSE IF k = "messages" THEN Get(s, "messages", << >>) \o upd[k]
        ELSE upd[k]]

\* utils.validate_youtube_url
validate_youtube_url(u) ==
    LET scheme == IF Len(u) >= 2 /\ u[2] = "://" THEN u[1] ELSE ""
        netloc == IF Len(u) >= 3 /\ u[2] = "://" THEN u[3] ELSE ""
    IN  /\ scheme \in {"http", "https"}
        /\ netloc \in {"www.youtube.com", "youtube.com", "youtu.be"}
        /\ \/ Contains(u, "watch?v=")
           \/ \E i \in 1..(Len(u) - 1) : u[i] = "youtu.be" /\ u[i + 1] = "/"

\* text[:n]
Take(text, n) == SubSeq(text, 1, IF n < Len(text) THEN n ELSE Len(text))

\* ----------------------------------------------------------------- prompts

NoPrompt == [kind |-> "none"]

\* What decide_next_agent fills its prompt template with.
supervisor_prompt(s) ==
    LET messages == Get(s, "messages", << >>)
    IN  [kind |-> "supervisor",
         task |-> IF messages # << >> THEN messages[Len(messages)].content
                  ELSE <<"No Task">>,
         has_transcript |-> Get(s, "transcript_data", << >>) # << >>,
         has_analyzed |-> Get(s, "analyzed_data", << >>) # << >>,
         has_blog |-> Get(s, "final_blog", << >>) # << >>]

\* analyze_content's keyword_prompt: the task and the head of the transcript.
keyword_prompt(s, cfg) ==
    LET transcript == Get(s, "transcript_data", << >>)
    IN  IF transcript = << >> THEN NoPrompt
        ELSE [kind |-> "keywords",
              task |-> Get(s, "current_task", << >>),
              transcript |->
                  IF Len(transcript) > cfg.keyword_extraction_limit
                  THEN Take(transcript, cfg.keyword_extraction_limit)
                  ELSE transcript]

\* writer_prompt with the slip of leaving the transcript as long as it is.
writer_prompt_uncut(s, cfg) ==
    LET transcript == Get(s, "transcript_data", << >>)
    IN  IF transcript = << >> THEN NoPrompt
        ELSE [kind |-> "writer",
              task |-> Get(s, "current_task", << >>),
              transcript |-> transcript,
              analyzed_data |-> Get(s, "analyzed_data", << >>)]

\* write_blog's writer_prompt: the task, the transcript cut to
\* max_transcript_length, the analysis.
writer_prompt(s, cfg) ==
    LET transcript == Get(s, "transcript_data", << >>)
    IN  IF transcript = << >> THEN NoPrompt
        ELSE [kind |-> "writer",
              task |-> Get(s, "current_task", << >>),
              transcript |->
                  IF Len(transcript) > cfg.max_transcript_length
                  THEN Take(transcript, cfg.max_transcript_length)
                  ELSE transcript,
              analyzed_data |-> Get(s, "analyzed_data", << >>)]

\* loader_request with the slip of building the loader before the url is
\* validated.
loader_request_unchecked(s) ==
    [kind |-> "loader", youtube_url |-> Get(s, "input_url", << >>)]

\* extract_transcript's YoutubeLoader.from_youtube_url(url, ...).load(): the
\* url the loader is built on, reached only past the validation.
loader_request(s) ==
    LET u == Get(s, "input_url", << >>)
    IN  IF ~validate_youtube_url(u) THEN NoPrompt
        ELSE [kind |-> "loader", youtube_url |-> u]

\* What node n sends to its collaborator on state s.
PromptOf(n, s, cfg) ==
    IF n = "supervisor" THEN supervisor_prompt(s)
    ELSE IF n = "transcriptor" THEN loader_request(s)
    ELSE IF n = "analyzer" THEN keyword_prompt(s, cfg)
    ELSE IF n = "writer" THEN writer_prompt(s, cfg)
    ELSE NoPrompt

\* ------------------------------------------------------------------- nodes

\* ErrorUpdate with the slip of handing the run back to the supervisor, as the
\* successful returns do.
ErrorUpdateBackToSupervisor(who, error_msg) ==
    [error_message |-> error_msg,
     messages |-> <<AIMessage(<<who>> \o error_msg)>>,
     next_agent |-> "supervisor"]

\* A failing node's return: the error, its message, and the end of the run.
ErrorUpdate(who, error_msg) ==
    [error_message |-> error_msg,
     messages |-> <<AIMessage(<<who>> \o error_msg)>>,
     next_agent |-> "end"]

\* decide_next_agent with the slip of testing for the analyzer before the
\* transcriptor.
decide_next_agent_analyzer_first(s, llm) ==
    LET messages == Get(s, "messages", << >>)
        task_ == IF messages # << >> THEN messages[Len(messages)].content
                 ELSE <<"No Task">>
        has_transcript == Get(s, "transcript_data", << >>) # << >>
        has_analyzed == Get(s, "analyzed_data", << >>) # << >>
        has_blog == Get(s, "final_blog", << >>) # << >>
    IN  IF llm.kind = "raise"
        THEN [messages |-> <<AIMessage(<<"Supervisor: Error occurred - ">> \o llm.msg)>>,
              next_agent |-> "end",
              error_message |-> llm.msg]
        ELSE LET decision_text == Lower(Strip(llm.value))
                 choice ==
                    IF Contains(decision_text, "done") \/ has_blog
                    THEN <<"end", "Supervisor: All tasks completed successfully!">>
                    ELSE IF Contains(decision_text, "analyzer") \/ ~has_analyzed
                    THEN <<"analyzer",
                           "Supervisor: Assigning Analyzer to research relevant topics">>
                    ELSE IF Contains(decision_text, "transcriptor") \/ ~has_transcript
                    THEN <<"transcriptor",
                           "Supervisor: Assigning Transcriptor to extract video transcript">>
                    ELSE IF Contains(decision_text, "writer") \/ ~has_blog
                    THEN <<"writer",
                           "Supervisor: Assigning Writer to create SEO-optimized blog">>
                    ELSE <<"end", "Supervisor: Task appears to be complete">>
             IN  [messages |-> <<AIMessage(<<choice[2]>>)>>,
                  next_agent |-> choice[1],
                  current_task |-> task_]

\* decide_next_agent with the slip of choosing the writer on the model's word
\* only.
decide_next_agent_writer_on_word_only(s, llm) ==
    LET messages == Get(s, "messages", << >>)
        task_ == IF messages # << >> THEN messages[Len(messages)].content
                 ELSE <<"No Task">>
        has_transcript == Get(s, "transcript_data", << >>) # << >>
        has_analyzed == Get(s, "analyzed_data", << >>) # << >>
        has_blog == Get(s, "final_blog", << >>) # << >>
    IN  IF llm.kind = "raise"
        THEN [messages |-> <<AIMessage(<<"Supervisor: Error occurred - ">> \o llm.msg)>>,
              next_agent |-> "end",
              error_message |-> llm.msg]
        ELSE LET decision_text == Lower(Strip(llm.value))
                 choice ==
                    IF Contains(decision_text, "done") \/ has_blog
                    THEN <<"end", "Supervisor: All tasks completed successfully!">>
                    ELSE IF Contains(decision_text, "transcriptor") \/ ~has_transcript
                    THEN <<"transcriptor",
                           "Supervisor: Assigning Transcriptor to extract video transcript">>
                    ELSE IF Contains(decision_text, "analyzer") \/ ~has_analyzed
                    THEN <<"analyzer",
                           "Supervisor: Assigning Analyzer to research relevant topics">>
                    ELSE IF Contains(decision_text, "writer")
                    THEN <<"writer",
                           "Supervisor: Assigning Writer to create SEO-optimized blog">>
                    ELSE <<"end", "Supervisor: Task appears to be complete">>
             IN  [messages |-> <<AIMessage(<<choice[2]>>)>>,
                  next_agent |-> choice[1],
                  current_task |-> task_]

\* SupervisorAgent.decide_next_agent, llm being what chain.invoke does.
decide_next_agent(s, llm) ==
    LET messages == Get(s, "messages", << >>)
        task_ == IF messages # << >> THEN messages[Len(messages)].content
                 ELSE <<"No Task">>
        has_transcript == Get(s, "transcript_data", << >>) # << >>
        has_analyzed == Get(s, "analyzed_data", << >>) # << >>
        has_blog == Get(s, "final_blog", << >>) # << >>
    IN  IF llm.kind = "raise"
        THEN [messages |-> <<AIMessage(<<"Supervisor: Error occurred - ">> \o llm.msg)>>,
              next_agent |-> "end",
              error_message |-> llm.msg]
        ELSE LET decision_text == Lower(Strip(llm.value))
                 choice ==
                    IF Contains(decision_text, "done") \/ has_blog
                    THEN <<"end", "Supervisor: All tasks completed successfully!">>
                    ELSE IF Contains(decision_text, "transcriptor") \/ ~has_transcript
                    THEN <<"transcriptor",
                           "Supervisor: Assigning Transcriptor to extract video transcript">>
                    ELSE IF Contains(decision_text, "analyzer") \/ ~has_analyzed
                    THEN <<"analyzer",
                           "Supervisor: Assigning Analyzer to research relevant topics">>
                    ELSE IF Contains(decision_text, "writer") \/ ~has_blog
                    THEN <<"writer",
                           "Supervisor: Assigning Writer to create SEO-optimized blog">>
                    ELSE <<"end", "Supervisor: Task appears to be complete">>
             IN  [messages |-> <<AIMessage(<<choice[2]>>)>>,
                  next_agent |-> choice[1],
                  current_task |-> task_]

\* extract_transcript with the slip of handing the run to the analyzer itself.
extract_transcript_hands_to_analyzer(s, loader) ==
    LET u == Get(s, "input_url", << >>)
    IN  IF ~validate_youtube_url(u)
        THEN ErrorUpdate("Transcriptor: ", <<"Invalid YouTube URL: ">> \o u)
        ELSE IF loader.kind = "raise"
        THEN ErrorUpdate("Transcriptor: ", <<"Failed to extract transcript: ">> \o loader.msg)
        ELSE LET transcript_text == clean_text(Join(<<"\n", "\n">>, loader.value))
             IN  IF Strip(transcript_text) = << >>
                 THEN ErrorUpdate("Transcriptor: ", <<"No transcript found for this video">>)
                 ELSE [transcript_data |-> transcript_text,
                       messages |-> <<AIMessage(
                           <<"Transcriptor: Successfully extracted video transcript">>)>>,
                       next_agent |-> "analyzer"]

\* TranscriptorAgent.extract_transcript, loader being what loader.load() does.
extract_transcript(s, loader) ==
    LET u == Get(s, "input_url", << >>)
    IN  IF ~validate_youtube_url(u)
        THEN ErrorUpdate("Transcriptor: ", <<"Invalid YouTube URL: ">> \o u)
        ELSE IF loader.kind = "raise"
        THEN ErrorUpdate("Transcriptor: ", <<"Failed to extract transcript: ">> \o loader.msg)
        ELSE LET transcript_text == clean_text(Join(<<"\n", "\n">>, loader.value))
             IN  IF Strip(transcript_text) = << >>
                 THEN ErrorUpdate("Transcriptor: ", <<"No transcript found for this video">>)
                 ELSE [transcript_data |-> transcript_text,
                       messages |-> <<AIMessage(
                           <<"Transcriptor: Successfully extracted video transcript">>)>>,
                       next_agent |-> "supervisor"]

\* AnalyzerAgent.analyze_content, env being what the keyword model and the
\* search tool do.
analyze_content(s, env) ==
    LET transcript == Get(s, "transcript_data", << >>)
    IN  IF transcript = << >>
        THEN ErrorUpdate("Analyzer: ", <<"No transcript available for analysis">>)
        ELSE IF env.kind \in {"llm_raise", "search_raise"}
        THEN ErrorUpdate("Analyzer: ", <<"Analysis failed: ">> \o env.msg)
        ELSE LET results == env.value
                 result_text ==
                    IF results = << >>
                    THEN <<"No additional web content found for this topic.">>
                    ELSE Join(<<"\n", "\n">>, results)
             IN  [messages |-> <<AIMessage(
                      <<"Analyzer: Web research and analysis completed">>)>>,
                  analyzed_data |-> result_text,
                  next_agent |-> "supervisor"]

\* write_blog with the slip of storing the model's text before it is checked
\* for being blank.
write_blog_stores_unchecked(s, llm) ==
    LET transcript == Get(s, "transcript_data", << >>)
    IN  IF transcript = << >>
        THEN ErrorUpdate("Writer: ", <<"No transcript available for blog writing">>)
        ELSE IF llm.kind = "raise"
        THEN ErrorUpdate("Writer: ", <<"Blog writing failed: ">> \o llm.msg)
        ELSE LET blog_content == llm.value
             IN  IF Strip(blog_content) = << >>
                 THEN [error_message |-> <<"Failed to generate blog content">>,
                       messages |-> <<AIMessage(
                           <<"Writer: ", "Failed to generate blog content">>)>>,
                       next_agent |-> "end",
                       final_blog |-> blog_content]
                 ELSE [messages |-> <<AIMessage(
                          <<"Writer: SEO-optimized blog post created successfully">>)>>,
                       next_agent |-> "end",
                       final_blog |-> blog_content]

\* write_blog with the slip of handing the run back to the supervisor after
\* the blog is stored, as the other steps do.
write_blog_back_to_supervisor(s, llm) ==
    LET transcript == Get(s, "transcript_data", << >>)
    IN  IF transcript = << >>
        THEN ErrorUpdate("Writer: ", <<"No transcript available for blog writing">>)
        ELSE IF llm.kind = "raise"
        THEN ErrorUpdate("Writer: ", <<"Blog writing failed: ">> \o llm.msg)
        ELSE LET blog_content == llm.value
             IN  IF Strip(blog_content) = << >>
                 THEN ErrorUpdate("Writer: ", <<"Failed to generate blog content">>)
                 ELSE [messages |-> <<AIMessage(
                          <<"Writer: SEO-optimized blog post created successfully">>)>>,
                       next_agent |-> "supervisor",
                       final_blog |-> blog_content]

\* WriterAgent.write_blog, llm being what llm.invoke does.
write_blog(s, llm) ==
    LET transcript == Get(s, "transcript_data", << >>)
    IN  IF transcript = << >>
        THEN ErrorUpdate("Writer: ", <<"No transcript available for blog writing">>)
        ELSE IF llm.kind = "raise"
        THEN ErrorUpdate("Writer: ", <<"Blog writing failed: ">> \o llm.msg)
        ELSE LET blog_content == llm.value
             IN  IF Strip(blog_content) = << >>
                 THEN ErrorUpdate("Writer: ", <<"Failed to generate blog content">>)
                 ELSE [messages |-> <<AIMessage(
                          <<"Writer: SEO-optimized blog post created successfully">>)>>,
                       next_agent |-> "end",
                       final_blog |-> blog_content]

\* BlogWorkflow._router
_router(s) ==
    LET next_agent == Get(s, "next_agent", "supervisor")
    IN  IF next_agent = "end" \/ Get(s, "task_complete", FALSE)
        THEN END
        ELSE next_agent

\* ---------------------------------------------------------------- outcomes

\* What the collaborators of a node did, as the node sees it: "raised",
\* "invalid_url", "blank" (a transcript or a blog with nothing but whitespace),
\* "no_transcript" or "ok".
TranscriptorOutcome(s, loader) ==
    IF ~validate_youtube_url(Get(s, "input_url", << >>)) THEN "invalid_url"
    ELSE IF loader.kind = "raise" THEN "raised"
    ELSE IF Strip(clean_text(Join(<<"\n", "\n">>, loader.value))) = << >> THEN "blank"
    ELSE "ok"

AnalyzerOutcome(s, env) ==
    IF Get(s, "transcript_data", << >>) = << >> THEN "no_transcript"
    ELSE IF env.kind # "ok" THEN "raised"
    ELSE "ok"

WriterOutcome(s, llm) ==
    IF Get(s, "transcript_data", << >>) = << >> THEN "no_transcript"
    ELSE IF llm.kind = "raise" THEN "raised"
    ELSE IF Strip(llm.value) = << >> THEN "blank"
    ELSE "ok"

SupervisorOutcome(s, llm) == IF llm.kind = "raise" THEN "raised" ELSE "ok"

\* ------------------------------------------------------------------- graph

\* The step bound checked one superstep late.
OutOfStepsOneLate == steps > RecursionLimit

\* The graph's step bound (Pregel's recursion_limit check).
OutOfSteps == steps >= RecursionLimit

\* One superstep: node n returns upd, the state takes it, the conditional edge
\* of n (_router on the new state) names the next node.
Superstep(n, upd, oc) ==
    /\ phase = "running"
    /\ node = n
    /\ ~OutOfSteps
    /\ state' = Merge(state, upd)
    /\ node' = _router(state')
    /\ steps' = steps + 1
    /\ last' = n
    /\ outcome' = oc
    /\ invoked' = [invoked EXCEPT ![n] = @ + 1]
    /\ prompt' = PromptOf(n, state, config)
    /\ UNCHANGED <<url, task, phase, response, config, cli, util>>

Supervisor ==
    \E llm \in SupervisorLLM :
        Superstep("supervisor", decide_next_agent(state, llm),
                  SupervisorOutcome(state, llm))

Transcriptor ==
    \E loader \in LoaderResults :
        Superstep("transcriptor", extract_transcript(state, loader),
                  TranscriptorOutcome(state, loader))

Analyzer ==
    \E env \in AnalyzerResults :
        Superstep("analyzer", analyze_content(state, env), AnalyzerOutcome(state, env))

Writer ==
    \E llm \in WriterLLM :
        Superstep("writer", write_blog(state, llm), WriterOutcome(state, llm))

\* str(e) of LangGraph's GraphRecursionError.
RecursionErrorText == <<"Recursion limit reached without hitting a stop condition">>

\* process_video: graph.invoke returned the final state.
ProcessVideoReturn ==
    /\ phase = "running"
    /\ node = END
    /\ response' = state
    /\ phase' = "returned"
    /\ UNCHANGED <<url, task, state, node, steps, last, outcome, invoked,
                   config, prompt, cli, util>>

\* process_video: graph.invoke raised, the except branch builds the result.
ProcessVideoExcept ==
    /\ phase = "running"
    /\ node # END
    /\ OutOfSteps
    /\ response' = [error_message |-> RecursionErrorText,
                    final_blog |-> << >>,
                    messages |-> <<AIMessage(<<"Workflow failed: ">> \o RecursionErrorText)>>]
    /\ phase' = "returned"
    /\ UNCHANGED <<url, task, state, node, steps, last, outcome, invoked,
                   config, prompt, cli, util>>

\* No call of truncate_text is under way.
NoCall == [pc |-> "none"]

\* Not run from cli.main: process_video is called by a program of its own
\* (main.py's main, example.py).
NoCli == [pc |-> "library", dry_run |-> FALSE]

\* process_video(url, task): the graph starts at its entry point on the input.
ProcessVideoStart ==
    /\ url \in Urls
    /\ task \in Tasks
    /\ state = [input_url |-> url, messages |-> <<HumanMessage(task)>>]
    /\ node = "supervisor"
    /\ steps = 0
    /\ phase = "running"
    /\ response = [k \in {} |-> << >>]
    /\ last = "start"
    /\ outcome = "none"
    /\ invoked = [n \in Nodes |-> 0]
    /\ prompt = NoPrompt
    /\ cli = NoCli
    /\ util = NoCall

\* BlogWorkflow().process_video(url, task), the config being AppConfig()'s.
Init ==
    /\ ProcessVideoStart
    /\ config = ProcessingConfig

Next ==
    \/ Supervisor
    \/ Transcriptor
    \/ Analyzer
    \/ Writer
    \/ ProcessVideoReturn
    \/ ProcessVideoExcept

Spec == Init /\ [][Next]_vars

\* The graph runs a node whenever one is due, and process_video returns.
FairSpec == Spec /\ WF_vars(Next)

\* ------------------------------------------------------- the nominal runs

\* The collaborators at their best: the language model answers with a text
\* that is not blank, the loader returns documents with text, the search
\* returns a result with a content.
NominalSupervisorLLM == {llm \in SupervisorLLM : llm.kind = "ok" /\ Strip(llm.value) # << >>}

NominalLoaderResults ==
    {l \in LoaderResults :
        /\ l.kind = "ok"
        /\ l.value # << >>
        /\ \A i \in 1..Len(l.value) : Strip(l.value[i]) # << >>}

NominalAnalyzerResults ==
    {r \in AnalyzerResults :
        /\ r.kind = "ok"
        /\ r.value # << >>
        /\ \A i \in 1..Len(r.value) : Strip(r.value[i]) # << >>}

NominalWriterLLM == {llm \in WriterLLM : llm.kind = "ok" /\ Strip(llm.value) # << >>}

NominalSupervisor ==
    \E llm \in NominalSupervisorLLM :
        Superstep("supervisor", decide_next_agent(state, llm),
                  SupervisorOutcome(state, llm))

NominalTranscriptor ==
    \E loader \in NominalLoaderResults :
        Superstep("transcriptor", extract_transcript(state, loader),
                  TranscriptorOutcome(state, loader))

NominalAnalyzer ==
    \E env \in NominalAnalyzerResults :
        Superstep("analyzer", analyze_content(state, env),
                  AnalyzerOutcome(state, env))

NominalWriter ==
    \E llm \in NominalWriterLLM :
        Superstep("writer", write_blog(state, llm), WriterOutcome(state, llm))

NominalNext ==
    \/ NominalSupervisor
    \/ NominalTranscriptor
    \/ NominalAnalyzer
    \/ NominalWriter
    \/ ProcessVideoReturn
    \/ ProcessVideoExcept

\* process_video with collaborators that never fail.
NominalSpec == Init /\ [][NominalNext]_vars

\* A caller that has set workflow.config.processing.max_transcript_length
\* before it calls process_video.
CapInit ==
    /\ ProcessVideoStart
    /\ config \in {[ProcessingConfig EXCEPT !.max_transcript_length = c] :
                       c \in 0..MaxTranscriptCap}

\* process_video under a small max_transcript_length, with collaborators that
\* never fail.
CapSpec == CapInit /\ [][NominalNext]_vars

\* ---------------------------------------------------------------- cli.main

\* cli.validate_input
validate_input(u) == u # << >> /\ validate_youtube_url(u)

\* The urls given on the command line: those of process_video, and none.
CliUrls == Urls \cup { << >> }

\* main's report with the slip of only warning when no blog came back, as
\* main.py's own main does.
report_exit_code_warning_only(resp, export_ok) ==
    IF Get(resp, "error_message", << >>) # << >> THEN 1
    ELSE IF Get(resp, "final_blog", << >>) # << >>
    THEN IF export_ok THEN 0 ELSE 1
    ELSE 0

\* The exit code of main once process_video has returned resp: 1 on an error,
\* on a missing blog and on an export that raises, 0 when main falls off its
\* end after the export.
report_exit_code(resp, export_ok) ==
    IF Get(resp, "error_message", << >>) # << >> THEN 1
    ELSE IF Get(resp, "final_blog", << >>) # << >>
    THEN IF export_ok THEN 0 ELSE 1
    ELSE 1

\* The process ends: sys.exit(code), or code 0 when main returns.
Exit(code, exported) ==
    cli' = [pc |-> "exited", dry_run |-> cli.dry_run,
            exit_code |-> code, exported |-> exported]

\* validate_input fails: sys.exit(1) before anything else.
CliRejectInput ==
    /\ cli.pc = "main"
    /\ ~validate_input(url)
    /\ Exit(1, FALSE)
    /\ UNCHANGED <<url, task, state, node, steps, phase, response, last, outcome,
                   invoked, config, prompt, util>>

\* AppConfig() or BlogWorkflow() raises (an API key is missing): the except
\* branch exits with 1.
CliInitError ==
    /\ cli.pc = "main"
    /\ validate_input(url)
    /\ Exit(1, FALSE)
    /\ UNCHANGED <<url, task, state, node, steps, phase, response, last, outcome,
                   invoked, config, prompt, util>>

\* --dry-run: main prints what it validated and returns.
CliDryRun ==
    /\ cli.pc = "main"
    /\ validate_input(url)
    /\ cli.dry_run
    /\ Exit(0, FALSE)
    /\ UNCHANGED <<url, task, state, node, steps, phase, response, last, outcome,
                   invoked, config, prompt, util>>

\* workflow.process_video(args.url, args.task) is called.
CliProcessVideo ==
    /\ cli.pc = "main"
    /\ validate_input(url)
    /\ ~cli.dry_run
    /\ phase = "idle"
    /\ phase' = "running"
    /\ state' = [input_url |-> url, messages |-> <<HumanMessage(task)>>]
    /\ cli' = [cli EXCEPT !.pc = "workflow"]
    /\ UNCHANGED <<url, task, node, steps, response, last, outcome, invoked,
                   config, prompt, util>>

\* process_video has returned: main reports, exports the blog if there is one
\* (the export may raise), and exits.
CliReport ==
    /\ cli.pc = "workflow"
    /\ phase = "returned"
    /\ \E export_ok \in BOOLEAN :
        Exit(report_exit_code(response, export_ok),
             /\ Get(response, "error_message", << >>) = << >>
             /\ Get(response, "final_blog", << >>) # << >>
             /\ export_ok)
    /\ UNCHANGED <<url, task, state, node, steps, phase, response, last, outcome,
                   invoked, config, prompt, util>>

\* KeyboardInterrupt inside main's try: the stack is unwound, the workflow's
\* state is gone, the except branch exits with 1.
CliInterrupt ==
    /\ \/ cli.pc = "main" /\ validate_input(url)
       \/ cli.pc = "workflow"
    /\ Exit(1, FALSE)
    /\ phase' = "interrupted"
    /\ state' = [k \in {} |-> << >>]
    /\ node' = "supervisor"
    /\ steps' = 0
    /\ response' = [k \in {} |-> << >>]
    /\ last' = "start"
    /\ outcome' = "none"
    /\ invoked' = [n \in Nodes |-> 0]
    /\ prompt' = NoPrompt
    /\ UNCHANGED <<url, task, config, util>>

\* python cli.py url [--dry-run]: main is about to validate its input, no
\* workflow exists yet.
CliInit ==
    /\ url \in CliUrls
    /\ task \in Tasks
    /\ cli \in {[pc |-> "main", dry_run |-> d] : d \in BOOLEAN}
    /\ phase = "idle"
    /\ state = [k \in {} |-> << >>]
    /\ node = "supervisor"
    /\ steps = 0
    /\ response = [k \in {} |-> << >>]
    /\ last = "start"
    /\ outcome = "none"
    /\ invoked = [n \in Nodes |-> 0]
    /\ config = ProcessingConfig
    /\ prompt = NoPrompt
    /\ util = NoCall

CliNext ==
    \/ CliRejectInput
    \/ CliInitError
    \/ CliDryRun
    \/ CliProcessVideo
    \/ Supervisor
    \/ Transcriptor
    \/ Analyzer
    \/ Writer
    \/ ProcessVideoReturn
    \/ ProcessVideoExcept
    \/ CliReport
    \/ CliInterrupt

CliSpec == CliInit /\ [][CliNext]_vars

\* ----------------------------------------------------------- truncate_text

\* text[:n], n negative counting from the end.
SliceTo(text, n) ==
    IF n >= 0 THEN Take(text, n)
    ELSE IF Len(text) + n > 0 THEN Take(text, Len(text) + n)
    ELSE << >>

\* utils.truncate_text
truncate_text(text, max_length, suffix) ==
    IF Len(text) <= max_length THEN text
    ELSE SliceTo(text, max_length - Len(suffix)) \o suffix

\* The texts, lengths and suffixes truncate_text is called with.
TruncateTexts == TextsUpTo({"a", "b"}, MaxTextLen)

TruncateSuffixes == TextsUpTo({"."}, MaxSuffixLen)

\* truncate_text(text, max_length, suffix) is called, outside any workflow.
TruncateInit ==
    /\ util \in {[pc |-> "called", text |-> t, max_length |-> m, suffix |-> x] :
                    t \in TruncateTexts, m \in 0..MaxLength, x \in TruncateSuffixes}
    /\ url \in Urls
    /\ task \in Tasks
    /\ phase = "idle"
    /\ state = [k \in {} |-> << >>]
    /\ node = "supervisor"
    /\ steps = 0
    /\ response = [k \in {} |-> << >>]
    /\ last = "start"
    /\ outcome = "none"
    /\ invoked = [n \in Nodes |-> 0]
    /\ config = ProcessingConfig
    /\ prompt = NoPrompt
    /\ cli = NoCli

\* truncate_text returns.
TruncateText ==
    /\ util.pc = "called"
    /\ util' = [pc |-> "returned", text |-> util.text,
                max_length |-> util.max_length, suffix |-> util.suffix,
                result |-> truncate_text(util.text, util.max_length, util.suffix)]
    /\ UNCHANGED <<url, task, state, node, steps, phase, response, last, outcome,
                   invoked, config, prompt, cli>>

TruncateNext == TruncateText

TruncateSpec == TruncateInit /\ [][TruncateNext]_vars

\* -------------------------------------------------------------- the fields

transcript_data == Get(state, "transcript_data", << >>)

analyzed_data == Get(state, "analyzed_data", << >>)

final_blog == Get(state, "final_blog", << >>)

error_message == Get(state, "error_message", << >>)

current_task == Get(state, "current_task", << >>)

Accumulated == {"transcript_data", "analyzed_data", "final_blog"}

Steps == {"transcriptor", "analyzer", "writer"}

Failures == {"raised", "blank", "invalid_url", "no_transcript"}

\* The analyzer's text for a search without results.
no_web_content == <<"No additional web content found for this topic.">>

\* The graph is about to run node n.
About(n) == phase = "running" /\ node = n /\ ~OutOfSteps

\* The answers (not the exceptions) of the supervisor's language model.
Answers == {llm \in SupervisorLLM : llm.kind = "ok"}

\* ------------------------------------------------------------------ claims

\* C1: every result process_video returns has exactly one of final_blog and
\* error_message non-empty: never both, never neither.
C1_ExactlyOneOfBlogAndError ==
    phase = "returned" =>
        (Get(response, "final_blog", << >>) # << >>)
            # (Get(response, "error_message", << >>) # << >>)

\* C2: the loop ends within a fixed number of iterations: the graph never
\* executes more than RecursionLimit supersteps, whatever the nodes and the
\* language model return, and process_video returns.
C2_TerminatesWithinBound ==
    /\ [](steps <= RecursionLimit)
    /\ <>(phase = "returned")

\* C2: a run that only the bound ended: the analyzer kept returning an empty
\* analysis without an error, and the supervisor kept sending it back.
C2_Witness ==
    /\ phase = "returned"
    /\ node # END
    /\ steps = RecursionLimit
    /\ invoked["analyzer"] >= 2
    /\ analyzed_data = << >>
    /\ "error_message" \notin DOMAIN state
    /\ Get(response, "error_message", << >>) # << >>

\* C3: the supervisor's choice depends on the state only: on one state, any two
\* answers of the language model lead to the same next agent.
C3_RoutingIgnoresAdvice ==
    About("supervisor") =>
        \A l1, l2 \in Answers :
            decide_next_agent(state, l1).next_agent
                = decide_next_agent(state, l2).next_agent

\* C4: no node clears a non-empty accumulation field: once transcript_data,
\* analyzed_data or final_blog is non-empty it stays non-empty.
C4_Monotonic ==
    [][\A f \in Accumulated :
        Get(state, f, << >>) # << >> => Get(state', f, << >>) # << >>]_vars

\* C5: once error_message is set the router's decision is END, and no node
\* (no step, no supervisor decision) runs afterwards.
C5_ErrorEndsRun ==
    [][/\ "error_message" \in DOMAIN state' =>
            _router(state') = END /\ node' = END
       /\ "error_message" \in DOMAIN state =>
            state' = state /\ invoked' = invoked /\ steps' = steps]_vars

\* C5: a run that an error ended after a field had been accumulated.
C5_Witness ==
    /\ phase = "returned"
    /\ error_message # << >>
    /\ transcript_data # << >>
    /\ analyzed_data # << >>
    /\ response = state

\* C6: with transcript_data empty and neither error_message nor final_blog
\* set, the supervisor sends the run to the transcriptor whatever the language
\* model answers.
C6_EmptyTranscriptRoutesToTranscriptor ==
    (/\ About("supervisor")
     /\ transcript_data = << >>
     /\ error_message = << >>
     /\ final_blog = << >>) =>
        \A llm \in Answers :
            _router(Merge(state, decide_next_agent(state, llm))) = "transcriptor"

\* C7: whenever the analyzer or the writer is about to run, the current_task
\* it reads is the task process_video was called with.
C7_TaskIsTheUsersTask ==
    (About("analyzer") \/ About("writer")) => current_task = task

\* C8: every failure (of a step, of the supervisor's model call, of the graph
\* execution) comes back as a result with a non-empty error_message.
C8_FailuresAreReported ==
    (phase = "returned" /\ (outcome \in Failures \/ node # END)) =>
        Get(response, "error_message", << >>) # << >>

\* C9: the transcriptor runs at most once in a run.
C9_TranscriptorAtMostOnce == invoked["transcriptor"] <= 1

\* C10: a step that fails sets error_message and writes none of
\* transcript_data, analyzed_data and final_blog; final_blog stays unset.
C10_FailedStepWritesNoField ==
    [][(steps' = steps + 1 /\ last' \in Steps /\ outcome' \in Failures) =>
        /\ error_message' # << >>
        /\ \A f \in Accumulated :
            /\ (f \in DOMAIN state') = (f \in DOMAIN state)
            /\ Get(state', f, << >>) = Get(state, f, << >>)
        /\ "final_blog" \notin DOMAIN state']_vars

\* C10: the writer's model answered with a blank text after the transcript and
\* the analysis were stored.
C10_Witness ==
    /\ last = "writer"
    /\ outcome = "blank"
    /\ transcript_data # << >>
    /\ analyzed_data # << >>
    /\ error_message = <<"Failed to generate blog content">>

\* C11: a url that validate_youtube_url rejects is rejected before the loop
\* starts: no supervisor decision, no step and no collaborator call happens
\* for it, and no error enters the workflow state.
C11_InvalidUrlNeverEntersLoop ==
    ~validate_youtube_url(url) =>
        /\ \A n \in Nodes : invoked[n] = 0
        /\ "error_message" \notin DOMAIN state

\* C12: in a run on a valid url where the loader returns documents with text,
\* the search returns results and the language model answers with a text that
\* is not blank at every call, process_video returns a non-empty final_blog,
\* no error, and a message history of four entries.
C12_NominalRunSucceedsWithFourEntries ==
    (phase = "returned" /\ validate_youtube_url(url)) =>
        /\ node = END
        /\ Get(response, "final_blog", << >>) # << >>
        /\ Get(response, "error_message", << >>) = << >>
        /\ Len(Get(response, "messages", << >>)) = 4

\* C13: when loader.load() returns an empty list of documents, the transcriptor
\* sets error_message to its no-transcript error (worded "No transcript found
\* for this video" by extract_transcript), does not write transcript_data, and
\* the run ends with that as its one and only step invocation: no analyzer and
\* no writer has run or runs.
C13_EmptyChunksEndAfterOneStep ==
    (About("transcriptor") /\ validate_youtube_url(url)) =>
        LET upd == extract_transcript(state, Return(<< >>))
        IN  /\ upd.error_message = <<"No transcript found for this video">>
            /\ "transcript_data" \notin DOMAIN upd
            /\ _router(Merge(state, upd)) = END
            /\ invoked["transcriptor"] + 1 + invoked["analyzer"] + invoked["writer"] = 1

\* C14: with a transcript stored, when the search returns no result the
\* analyzer stores the fixed non-empty placeholder in analyzed_data, sets no
\* error_message, and the supervisor then sends the run to the writer.
C14_NoResultsProceedsToWriter ==
    (About("analyzer") /\ transcript_data # << >>) =>
        LET upd == analyze_content(state, Return(<< >>))
            after == Merge(state, upd)
        IN  /\ upd.analyzed_data = no_web_content
            /\ no_web_content # << >>
            /\ "error_message" \notin DOMAIN upd
            /\ _router(after) = "supervisor"
            /\ \A llm \in Answers :
                _router(Merge(after, decide_next_agent(after, llm))) = "writer"

\* C15: the transcript in the writer's prompt is the prefix of transcript_data
\* of length min(len(transcript_data), max_transcript_length): a transcript not
\* longer than the cap goes in whole, a longer one is cut to exactly the cap,
\* and the writer does not fail for the cut.
C15_PromptTranscriptIsCappedPrefix ==
    (last = "writer" /\ prompt.kind = "writer") =>
        LET cap == config.max_transcript_length
            k == IF Len(transcript_data) < cap THEN Len(transcript_data) ELSE cap
        IN  /\ Len(prompt.transcript) = k
            /\ \A i \in 1..k : prompt.transcript[i] = transcript_data[i]
            /\ Len(transcript_data) <= cap => prompt.transcript = transcript_data
            /\ Len(transcript_data) > cap => Len(prompt.transcript) = cap
            /\ outcome = "ok"
            /\ "error_message" \notin DOMAIN state
            /\ final_blog # << >>

\* C15: the writer has written a blog from a transcript that was cut to the
\* cap, shorter than the transcript and not zero.
C15_Witness ==
    /\ last = "writer"
    /\ prompt.kind = "writer"
    /\ config.max_transcript_length > 0
    /\ Len(transcript_data) > config.max_transcript_length
    /\ Len(prompt.transcript) = config.max_transcript_length
    /\ final_blog # << >>

\* C16: the transcript the transcriptor stores is the documents joined in order
\* by a blank line and normalized: no two whitespace characters in a row inside
\* a line, no three newlines in a row, no leading or trailing whitespace, and
\* the blank line between two documents with text is still there.
C16_SeparatorsSurviveNormalization ==
    (About("transcriptor") /\ validate_youtube_url(url)) =>
        \A loader \in LoaderResults :
            TranscriptorOutcome(state, loader) = "ok" =>
                LET t == extract_transcript(state, loader).transcript_data
                    docs == loader.value
                IN  /\ t = Strip(t)
                    /\ \A i \in 1..(Len(t) - 1) :
                        ~(t[i] \in {" ", "\t"} /\ t[i + 1] \in {" ", "\t"})
                    /\ \A i \in 1..(Len(t) - 2) :
                        ~(t[i] = "\n" /\ t[i + 1] = "\n" /\ t[i + 2] = "\n")
                    /\ (\E i, j \in 1..Len(docs) :
                            i < j /\ Strip(docs[i]) # << >> /\ Strip(docs[j]) # << >>)
                        => \E i \in 1..(Len(t) - 1) : t[i] = "\n" /\ t[i + 1] = "\n"

\* C17 as first stated: cli.main exits with 0 only when the workflow ended with
\* no error_message, a non-empty final_blog and the export done, and exits
\* with 1 on a validation failure and on a workflow result with an
\* error_message or without a final_blog.
C17_ExitZeroOnlyOnWorkflowSuccess ==
    cli.pc = "exited" =>
        /\ cli.exit_code = 0 =>
            /\ phase = "returned"
            /\ Get(response, "error_message", << >>) = << >>
            /\ Get(response, "final_blog", << >>) # << >>
            /\ cli.exported
        /\ ~validate_input(url) => cli.exit_code = 1
        /\ (/\ phase = "returned"
            /\ \/ Get(response, "error_message", << >>) # << >>
               \/ Get(response, "final_blog", << >>) = << >>) => cli.exit_code = 1

\* C17: cli.main exits with 0 only when the workflow ended with no
\* error_message, a non-empty final_blog and the export done, or when it was a
\* dry run on a valid url that never started the workflow; it exits with 1 on
\* a validation failure and on a workflow result with an error_message or
\* without a final_blog.
C17_ExitZeroOnlyOnSuccessOrDryRun ==
    cli.pc = "exited" =>
        /\ cli.exit_code = 0 =>
            \/ /\ phase = "returned"
               /\ Get(response, "error_message", << >>) = << >>
               /\ Get(response, "final_blog", << >>) # << >>
               /\ cli.exported
            \/ /\ cli.dry_run
               /\ validate_input(url)
               /\ phase = "idle"
               /\ \A n \in Nodes : invoked[n] = 0
        /\ ~validate_input(url) => cli.exit_code = 1
        /\ (/\ phase = "returned"
            /\ \/ Get(response, "error_message", << >>) # << >>
               \/ Get(response, "final_blog", << >>) = << >>) => cli.exit_code = 1

\* C17: main has exited with 1 on a result of process_video that has neither
\* an error_message nor a final_blog.
C17_Witness ==
    /\ cli.pc = "exited"
    /\ phase = "returned"
    /\ node = END
    /\ Get(response, "error_message", << >>) = << >>
    /\ Get(response, "final_blog", << >>) = << >>
    /\ cli.exit_code = 1

\* C18: once write_blog has stored final_blog the router's decision is END:
\* the run ends at once, no supervisor decision and no step runs after it, and
\* final_blog is not written again.
C18_BlogEndsRun ==
    [][/\ (steps' = steps + 1 /\ last' = "writer" /\ outcome' = "ok") =>
            /\ Get(state', "final_blog", << >>) # << >>
            /\ _router(state') = END
            /\ node' = END
       /\ "final_blog" \in DOMAIN state =>
            /\ invoked' = invoked
            /\ Get(state', "final_blog", << >>) = final_blog
            /\ node' = END]_vars

\* C18: process_video has returned the blog the writer stored in its one run.
C18_Witness ==
    /\ phase = "returned"
    /\ last = "writer"
    /\ outcome = "ok"
    /\ invoked["writer"] = 1
    /\ Get(response, "final_blog", << >>) # << >>
    /\ Get(response, "final_blog", << >>) = final_blog

\* C19: every run of a step comes right after a supervisor decision that names
\* that step, and a step hands the run to the supervisor or ends it, never to
\* another step.
C19_StepFollowsDecision ==
    [][(steps' = steps + 1 /\ last' \in Steps) =>
        /\ last = "supervisor"
        /\ Get(state, "next_agent", "supervisor") = last'
        /\ node' \in {"supervisor", END}]_vars

\* C19: the analyzer has run after the supervisor's third decision, the
\* transcriptor having run twice before.
C19_Witness ==
    /\ last = "analyzer"
    /\ node = "supervisor"
    /\ invoked["supervisor"] = 3
    /\ invoked["transcriptor"] = 2
    /\ invoked["analyzer"] = 1

\* C20: whatever the language model answers, the analyzer is run only with
\* transcript_data non-empty and the writer only with transcript_data and
\* analyzed_data non-empty; neither ever takes its "No transcript available"
\* return.
C20_StepPreconditions ==
    /\ node = "analyzer" => transcript_data # << >>
    /\ node = "writer" => (transcript_data # << >> /\ analyzed_data # << >>)
    /\ outcome # "no_transcript"

\* C20: the writer is about to run after the language model's answers had sent
\* the run back to the transcriptor and to the analyzer.
C20_Witness ==
    /\ About("writer")
    /\ invoked["transcriptor"] >= 2
    /\ invoked["analyzer"] >= 2
    /\ transcript_data # << >>
    /\ analyzed_data # << >>

\* C21: the transcript loader is called only on a url that
\* validate_youtube_url accepts; on any other url extract_transcript sets
\* error_message, ends the run, and calls no loader.
C21_LoaderOnlyOnValidUrl ==
    /\ prompt.kind = "loader" => validate_youtube_url(prompt.youtube_url)
    /\ (last = "transcriptor" /\ ~validate_youtube_url(Get(state, "input_url", << >>))) =>
        /\ prompt = NoPrompt
        /\ error_message # << >>
        /\ "transcript_data" \notin DOMAIN state
        /\ node = END

\* C21: the transcriptor has refused a url and ended the run without a loader.
C21_Witness ==
    /\ last = "transcriptor"
    /\ ~validate_youtube_url(url)
    /\ error_message = <<"Invalid YouTube URL: ">> \o url
    /\ prompt = NoPrompt
    /\ node = END

\* C22: input_url is never written after process_video has set it: in every
\* state of a run it is the url process_video was called with.
C22_InputUrlImmutable ==
    /\ "input_url" \in DOMAIN state
    /\ state["input_url"] = url

\* C22: the run has gone through every node, the transcriptor and the analyzer
\* more than once, and input_url is still the caller's url.
C22_Witness ==
    /\ phase = "returned"
    /\ last = "writer"
    /\ invoked["transcriptor"] >= 2
    /\ invoked["analyzer"] >= 2
    /\ Get(state, "input_url", << >>) = url
    /\ Get(response, "input_url", << >>) = url

\* C23: decide_next_agent never takes its last else ("Task appears to be
\* complete"): not for any answer of the language model with any combination
\* of transcript_data, analyzed_data and final_blog empty or not, and not in any
\* run; and the supervisor is never run on a state with a non-empty final_blog.
C23_FinalElseUnreachable ==
    /\ last = "start" =>
        \A llm \in Answers :
            \A t, a, b \in { << >>, <<"a">> } :
                decide_next_agent(
                    Merge(state, [transcript_data |-> t, analyzed_data |-> a,
                                  final_blog |-> b]),
                    llm).messages[1].content
                        # <<"Supervisor: Task appears to be complete">>
    /\ last = "supervisor" =>
        state["messages"][Len(state["messages"])].content
            # <<"Supervisor: Task appears to be complete">>
    /\ node = "supervisor" => final_blog = << >>

\* C23: the supervisor has reached its fourth test, with a transcript and an
\* analysis stored and no blog, and has chosen the writer.
C23_Witness ==
    /\ last = "supervisor"
    /\ node = "writer"
    /\ transcript_data # << >>
    /\ analyzed_data # << >>
    /\ final_blog = << >>
    /\ state["messages"][Len(state["messages"])].content
        = <<"Supervisor: Assigning Writer to create SEO-optimized blog">>

\* C24: for every text, every max_length >= 0 and every suffix, the result of
\* truncate_text is at most max_length long, and is the text itself when the
\* text is not longer than max_length.
C24_TruncateWithinMaxLength ==
    util.pc = "returned" =>
        /\ Len(util.result) <= util.max_length
        /\ Len(util.text) <= util.max_length => util.result = util.text

====
